---- MODULE Spec2Model ----
(***************************************************************************)
(* Model of the tool-execution-state side channel (package tools) and of   *)
(* the LoggerCallback handlers and stream consumers (package main) of the  *)
(* react agent example.                                                    *)
(***************************************************************************)
EXTENDS Integers, Sequences, FiniteSets, TLC

VARIABLES
    variant,   \* which of the two LoggerCallback definitions of react.go is built
    heap,      \* allocated ToolExecutionState objects, address = index
    scopes,    \* context.Context values derived from Background, id = index
    lastOp,    \* the last direct call of the tools API: its arguments, the delegate's
               \* result, the state's value before it and the pair it returned
    calls,     \* the component calls the dispatcher runs under the LoggerCallback
    frames,    \* the frames the component's output stream carries, in order
    term,      \* the terminal signal that follows them: io.EOF or another error
    avail,     \* how many items (frames, then the terminal signal) the source has delivered
    comp,      \* info.Component of the call whose output stream it is
    hookPc,    \* OnEndWithStreamOutput: "pending" or "returned"
    drain,     \* the reader handed to OnEndWithStreamOutput and the goroutine reading it
    chk,       \* the reader handed to toolCallChecker and the checker's progress
    main       \* main's loop on the agent's output stream: "reading", "finished" or "failed"

\* ------------------------------------------------------------------ bounds
MaxStates == 1
MaxScopes == 2
MaxCalls == 2
MaxFrames == 3

\* ------------------------------------------------------------------ values
\* A Go string as far as the code looks at it: its text, and whether
\* len(s) > 200 (the only length test in the code, OnEnd).
Str(b, l) == [body |-> b, long |-> l]
EmptyStr == Str("", FALSE)

\* error values; NilErr is the nil error
NilErr == [isNil |-> TRUE, msg |-> EmptyStr]
NewError(m) == [isNil |-> FALSE, msg |-> m]
\* e.Error()
ErrorText(e) == e.msg

\* nil pointer / absent state
Nil == 0
\* context.Background()
Background == 0

ToolStateKey == "toolStateKey"
OtherKey == "otherKey"
StatePtrType == "*ToolExecutionState"

\* ------------------------------------------------------------------ context
\* ctx.Value(key): the value of the nearest binding of key on the lineage of
\* ctx, the nil interface when there is none.
NoValue == [type |-> "nil", ptr |-> Nil]

RECURSIVE Value(_, _, _)
Value(sc, ctx, key) ==
    IF ctx = Background THEN NoValue
    ELSE IF sc[ctx].key = key THEN sc[ctx].val
    ELSE Value(sc, sc[ctx].parent, key)

\* context.WithValue(parent, key, val): a new context, the parent untouched
WithValue(sc, parent, key, val) ==
    Append(sc, [parent |-> parent, key |-> key, val |-> val])

GetToolStateDefault(sc, ctx) ==
    LET v == Value(sc, ctx, ToolStateKey) IN
    IF v = NoValue THEN 1
    ELSE IF v.type # StatePtrType THEN Nil
    ELSE v.ptr

GetToolState(sc, ctx) ==
    LET v == Value(sc, ctx, ToolStateKey) IN
    IF v = NoValue THEN Nil
    ELSE IF v.type # StatePtrType THEN Nil
    ELSE v.ptr

SetToolStateInPlace(sc, ctx, state) ==
    IF ctx = Background
    THEN Append(sc, [parent |-> ctx, key |-> ToolStateKey,
                     val |-> [type |-> StatePtrType, ptr |-> state]])
    ELSE Append([sc EXCEPT ![ctx] = [parent |-> sc[ctx].parent, key |-> ToolStateKey,
                                     val |-> [type |-> StatePtrType, ptr |-> state]]],
                [parent |-> ctx, key |-> OtherKey, val |-> NoValue])

\* SetToolState returns the scopes with the derived context added; the
\* derived context is the last one.
SetToolState(sc, ctx, state) ==
    WithValue(sc, ctx, ToolStateKey, [type |-> StatePtrType, ptr |-> state])

\* ------------------------------------------------------------------ tools
BadJSON == "{not json"
ArgsLocation == "{\"location\":\"beijing\"}"
ArgsRestaurantTopn == "{\"restaurant_id\":\"1001\",\"topn\":2}"
Arguments == {BadJSON, ArgsLocation, ArgsRestaurantTopn}

QueryRestaurants == "query_restaurants"
QueryDishes == "query_dishes"
ToolNames == {QueryRestaurants, QueryDishes}

\* json.Unmarshal of the argument text into a parameter struct: a syntax
\* error, or the fields the text carries (absent fields keep the zero value,
\* unknown fields are ignored).
SyntaxError == NewError(Str("invalid character 'n' looking for beginning of object key string", FALSE))

Unmarshal(args) ==
    CASE args = BadJSON -> [err |-> SyntaxError, location |-> "", restaurant_id |-> "", topn |-> 0]
      [] args = ArgsLocation -> [err |-> NilErr, location |-> "beijing", restaurant_id |-> "", topn |-> 0]
      [] args = ArgsRestaurantTopn -> [err |-> NilErr, location |-> "", restaurant_id |-> "1001", topn |-> 2]

DefaultRestaurantTopn == 3
DefaultDishTopn == 5

ServiceUnavailable ==
    NewError(Str("{\"error\":\"service temporarily unavailable\",\"message\":\"The restaurant service is temporarily unavailable. Please retry later.\",\"retry\":\"true\"}", FALSE))

\* The backend call and the serialisation of its answer: an error of the
\* service, or the serialised list, short or longer than 200 bytes.
BackendError == NewError(Str("backend failure", FALSE))

BackServiceResults(what, topn) ==
    {[out |-> EmptyStr, err |-> BackendError]}
    \cup {[out |-> Str(<<what, topn, "items">>, l), err |-> NilErr] : l \in BOOLEAN}

ToolQueryRestaurantsRunIgnoreDecode(args) ==
    LET p == Unmarshal(args)
        topn == IF p.topn = 0 THEN DefaultRestaurantTopn ELSE p.topn
    IN  {[out |-> EmptyStr, err |-> ServiceUnavailable]}
        \cup BackServiceResults(<<"restaurants", p.location>>, topn)

\* ToolQueryRestaurants.InvokableRun: the set of pairs (out, err) a call can return
ToolQueryRestaurantsRun(args) ==
    LET p == Unmarshal(args)
        topn == IF p.topn = 0 THEN DefaultRestaurantTopn ELSE p.topn
    IN  IF p.err # NilErr THEN {[out |-> EmptyStr, err |-> p.err]}
        ELSE {[out |-> EmptyStr, err |-> ServiceUnavailable]}
             \cup BackServiceResults(<<"restaurants", p.location>>, topn)

\* ToolQueryDishes.InvokableRun
ToolQueryDishesRun(args) ==
    LET p == Unmarshal(args)
        topn == IF p.topn = 0 THEN DefaultDishTopn ELSE p.topn
    IN  IF p.err # NilErr THEN {[out |-> EmptyStr, err |-> p.err]}
        ELSE BackServiceResults(<<"dishes", p.restaurant_id>>, topn)

InnerRun(tool, args) ==
    IF tool = QueryRestaurants THEN ToolQueryRestaurantsRun(args)
    ELSE ToolQueryDishesRun(args)

\* safeTool.InvokableRun, lines 75-78: the write to the state found on ctx
SafeToolStateNoWrite(h, state, inner) == h

SafeToolState(h, state, inner) ==
    IF state # Nil THEN [h EXCEPT ![state].Success = (inner.err = NilErr)] ELSE h

\* safeTool.InvokableRun, lines 80-84: the pair returned
SafeToolResultKeepError(inner) ==
    IF inner.err # NilErr THEN [out |-> ErrorText(inner.err), err |-> inner.err]
    ELSE [out |-> inner.out, err |-> NilErr]

SafeToolResultPropagate(inner) == inner

SafeToolResultCutPayload(inner) ==
    IF inner.err # NilErr THEN [out |-> ErrorText(inner.err), err |-> NilErr]
    ELSE [out |-> Str(inner.out.body, FALSE), err |-> NilErr]

SafeToolResult(inner) ==
    IF inner.err # NilErr THEN [out |-> ErrorText(inner.err), err |-> NilErr]
    ELSE [out |-> inner.out, err |-> NilErr]

streamVars == <<frames, term, avail, comp, hookPc, drain, chk, main>>

\* ------------------------------------------------------------------ direct use of the tools API
NoOp == [op |-> "none", ctx |-> Background, newCtx |-> Background, state |-> Nil,
         tool |-> "", args |-> "", inner |-> [out |-> EmptyStr, err |-> NilErr],
         pre |-> [bound |-> FALSE, Success |-> FALSE],
         ret |-> [out |-> EmptyStr, err |-> NilErr]]

Contexts(sc) == {Background} \cup (1..Len(sc))

\* &ToolExecutionState{Success: b}
NewState(b) ==
    /\ Len(heap) < MaxStates
    /\ heap' = Append(heap, [Success |-> b])
    /\ lastOp' = [NoOp EXCEPT !.op = "new", !.state = Len(heap) + 1]
    /\ UNCHANGED <<variant, scopes, calls, streamVars>>

\* context.WithValue under a key of another package
DeriveContext(ctx) ==
    /\ Len(scopes) < MaxScopes
    /\ scopes' = WithValue(scopes, ctx, OtherKey, NoValue)
    /\ lastOp' = [NoOp EXCEPT !.op = "derive", !.ctx = ctx, !.newCtx = Len(scopes) + 1]
    /\ UNCHANGED <<variant, heap, calls, streamVars>>

\* ctx2 := SetToolState(ctx, state)
CallSetToolState(ctx, state) ==
    /\ Len(scopes) < MaxScopes
    /\ scopes' = SetToolState(scopes, ctx, state)
    /\ lastOp' = [NoOp EXCEPT !.op = "bind", !.ctx = ctx, !.newCtx = Len(scopes') ,
                              !.state = state]
    /\ UNCHANGED <<variant, heap, calls, streamVars>>

\* out, err := GetRestaurantTool().InvokableRun(ctx, args) (or GetDishTool())
CallInvokableRun(tool, ctx, args) ==
    \E inner \in InnerRun(tool, args) :
        LET state == GetToolState(scopes, ctx) IN
        /\ heap' = SafeToolState(heap, state, inner)
        /\ lastOp' = [NoOp EXCEPT !.op = "invoke", !.ret = SafeToolResult(inner), !.ctx = ctx, !.state = state,
                                  !.tool = tool, !.args = args, !.inner = inner,
                                  !.pre = IF state = Nil THEN [bound |-> FALSE, Success |-> FALSE]
                                          ELSE [bound |-> TRUE, Success |-> heap[state].Success]]
        /\ UNCHANGED <<variant, scopes, calls, streamVars>>


\* ------------------------------------------------------------------ LoggerCallback, tool and model calls
ComponentOfTool == "Tool"
ComponentOfChatModel == "ChatModel"

ToolCallbackInput == "*tool.CallbackInput"
ToolCallbackOutput == "*tool.CallbackOutput"
ModelCallbackInput == "*model.CallbackInput"
ModelCallbackOutput == "*model.CallbackOutput"
GoString == "string"

\* tool.ConvCallbackInput: nil unless the input is a tool callback input or a string
NilInput == [shape |-> "nil", ArgumentsInJSON |-> ""]

ConvCallbackInput(input) ==
    IF input.shape \in {ToolCallbackInput, GoString}
    THEN [shape |-> ToolCallbackInput, ArgumentsInJSON |-> input.ArgumentsInJSON]
    ELSE NilInput

\* tool.ConvCallbackOutput: nil unless the output is a tool callback output or a string
NilOutput == [shape |-> "nil", Response |-> EmptyStr]

ConvCallbackOutput(output) ==
    IF output.shape \in {ToolCallbackOutput, GoString}
    THEN [shape |-> ToolCallbackOutput, Response |-> output.Response]
    ELSE NilOutput

\* responseStr[:200] + "..." when len(responseStr) > 200
Truncate(s) == IF s.long THEN Str(<<s.body, "[:200]", "...">>, TRUE) ELSE s

\* LoggerCallback.OnStart: the context returned, the lines printed, and the
\* heap and contexts after it. The second definition of react.go binds no state.
OnStartSharedState(v, h, sc, ctx, info, input) ==
    LET tci == ConvCallbackInput(input) IN
    IF info.Component = ComponentOfTool /\ tci # NilInput
    THEN IF v = 1
         THEN LET h1 == IF h = <<>> THEN <<[Success |-> FALSE]>> ELSE h
                  sc1 == SetToolState(sc, ctx, 1)
              IN  [heap |-> h1, scopes |-> sc1, ctx |-> Len(sc1),
                   printed |-> << <<"[TOOL]", info.Name, tci.ArgumentsInJSON>> >>]
         ELSE [heap |-> h, scopes |-> sc, ctx |-> ctx,
               printed |-> << <<"[TOOL]", info.Name, tci.ArgumentsInJSON>> >>]
    ELSE [heap |-> h, scopes |-> sc, ctx |-> ctx, printed |-> <<>>]

OnStartAnyInput(v, h, sc, ctx, info, input) ==
    LET tci == ConvCallbackInput(input) IN
    IF info.Component = ComponentOfTool
    THEN IF v = 1
         THEN LET h1 == Append(h, [Success |-> FALSE])
                  state == Len(h1)
                  sc1 == SetToolState(sc, ctx, state)
              IN  [heap |-> h1, scopes |-> sc1, ctx |-> Len(sc1),
                   printed |-> << <<"[TOOL]", info.Name, tci.ArgumentsInJSON>> >>]
         ELSE [heap |-> h, scopes |-> sc, ctx |-> ctx,
               printed |-> << <<"[TOOL]", info.Name, tci.ArgumentsInJSON>> >>]
    ELSE [heap |-> h, scopes |-> sc, ctx |-> ctx, printed |-> <<>>]

OnStartSucceeded(v, h, sc, ctx, info, input) ==
    LET tci == ConvCallbackInput(input) IN
    IF info.Component = ComponentOfTool /\ tci # NilInput
    THEN IF v = 1
         THEN LET h1 == Append(h, [Success |-> TRUE])
                  state == Len(h1)
                  sc1 == SetToolState(sc, ctx, state)
              IN  [heap |-> h1, scopes |-> sc1, ctx |-> Len(sc1),
                   printed |-> << <<"[TOOL]", info.Name, tci.ArgumentsInJSON>> >>]
         ELSE [heap |-> h, scopes |-> sc, ctx |-> ctx,
               printed |-> << <<"[TOOL]", info.Name, tci.ArgumentsInJSON>> >>]
    ELSE [heap |-> h, scopes |-> sc, ctx |-> ctx, printed |-> <<>>]

OnStartReuseAfterFailure(v, h, sc, ctx, info, input) ==
    LET tci == ConvCallbackInput(input) IN
    IF info.Component = ComponentOfTool /\ tci # NilInput
    THEN IF v = 1
         THEN LET reuse == h # <<>> /\ ~h[Len(h)].Success
                  h1 == IF reuse THEN h ELSE Append(h, [Success |-> FALSE])
                  state == Len(h1)
                  sc1 == SetToolState(sc, ctx, state)
              IN  [heap |-> h1, scopes |-> sc1, ctx |-> Len(sc1),
                   printed |-> << <<"[TOOL]", info.Name, tci.ArgumentsInJSON>> >>]
         ELSE [heap |-> h, scopes |-> sc, ctx |-> ctx,
               printed |-> << <<"[TOOL]", info.Name, tci.ArgumentsInJSON>> >>]
    ELSE [heap |-> h, scopes |-> sc, ctx |-> ctx, printed |-> <<>>]

OnStart(v, h, sc, ctx, info, input) ==
    LET tci == ConvCallbackInput(input) IN
    IF info.Component = ComponentOfTool /\ tci # NilInput
    THEN IF v = 1
         THEN LET h1 == Append(h, [Success |-> FALSE])
                  state == Len(h1)
                  sc1 == SetToolState(sc, ctx, state)
              IN  [heap |-> h1, scopes |-> sc1, ctx |-> Len(sc1),
                   printed |-> << <<"[TOOL]", info.Name, tci.ArgumentsInJSON>> >>]
         ELSE [heap |-> h, scopes |-> sc, ctx |-> ctx,
               printed |-> << <<"[TOOL]", info.Name, tci.ArgumentsInJSON>> >>]
    ELSE [heap |-> h, scopes |-> sc, ctx |-> ctx, printed |-> <<>>]

\* LoggerCallback.OnEnd: the context returned and the lines printed
OnEndInverted(v, h, sc, ctx, info, output) ==
    LET tco == ConvCallbackOutput(output) IN
    IF info.Component = ComponentOfTool /\ tco # NilOutput
    THEN LET result == <<"[TOOL]", info.Name, "result", Truncate(tco.Response)>>
             state == GetToolState(sc, ctx)
         IN  IF v = 1 /\ state # Nil
             THEN [ctx |-> ctx,
                   printed |-> <<result,
                                 IF h[state].Success
                                 THEN <<"[TOOL]", info.Name, "execution failed">>
                                 ELSE <<"[TOOL]", info.Name, "execution succeeded">> >>]
             ELSE [ctx |-> ctx, printed |-> <<result>>]
    ELSE [ctx |-> ctx, printed |-> <<>>]

OnEndAbsentAsFailed(v, h, sc, ctx, info, output) ==
    LET tco == ConvCallbackOutput(output) IN
    IF info.Component = ComponentOfTool /\ tco # NilOutput
    THEN LET result == <<"[TOOL]", info.Name, "result", Truncate(tco.Response)>>
             state == GetToolState(sc, ctx)
         IN  IF v = 1
             THEN [ctx |-> ctx,
                   printed |-> <<result,
                                 IF state # Nil /\ h[state].Success
                                 THEN <<"[TOOL]", info.Name, "execution succeeded">>
                                 ELSE <<"[TOOL]", info.Name, "execution failed">> >>]
             ELSE [ctx |-> ctx, printed |-> <<result>>]
    ELSE [ctx |-> ctx, printed |-> <<>>]

OnEnd(v, h, sc, ctx, info, output) ==
    LET tco == ConvCallbackOutput(output) IN
    IF info.Component = ComponentOfTool /\ tco # NilOutput
    THEN LET result == <<"[TOOL]", info.Name, "result", Truncate(tco.Response)>>
             state == GetToolState(sc, ctx)
         IN  IF v = 1 /\ state # Nil
             THEN [ctx |-> ctx,
                   printed |-> <<result,
                                 IF h[state].Success
                                 THEN <<"[TOOL]", info.Name, "execution succeeded">>
                                 ELSE <<"[TOOL]", info.Name, "execution failed">> >>]
             ELSE [ctx |-> ctx, printed |-> <<result>>]
    ELSE [ctx |-> ctx, printed |-> <<>>]

\* LoggerCallback.OnError
OnError(ctx, info, err) ==
    [ctx |-> ctx,
     printed |-> << <<"[ERROR]", info.Component, info.Type, info.Name, ErrorText(err)>> >>]

\* the chat model's Generate: an assistant message or an error of the model
ModelError == NewError(Str("model request failed", FALSE))
ModelRun == {[out |-> Str("assistant message", FALSE), err |-> NilErr],
             [out |-> EmptyStr, err |-> ModelError]}

NoCall == [pc |-> "NotStarted", info |-> [Component |-> "", Type |-> "", Name |-> ""],
           args |-> "", input |-> "", ctx |-> Background,
           inner |-> [out |-> EmptyStr, err |-> NilErr],
           ret |-> [out |-> EmptyStr, err |-> NilErr],
           printed |-> <<>>]

Calls == 1..MaxCalls

ToolInfos == {[Component |-> ComponentOfTool, Type |-> "", Name |-> n] : n \in ToolNames}
ModelInfos == {[Component |-> ComponentOfChatModel, Type |-> "DeepSeek", Name |-> "ChatModel"]}
\* what the dispatcher hands to OnStart: the tool's arguments as a tool
\* callback input or in a shape that is none, the model's messages
ToolInputs == {[shape |-> sh, ArgumentsInJSON |-> a] :
                   sh \in {ToolCallbackInput, ModelCallbackInput}, a \in Arguments}
ModelInputs == {[shape |-> ModelCallbackInput, ArgumentsInJSON |-> ""]}
InputsFor(info) == IF info.Component = ComponentOfTool THEN ToolInputs ELSE ModelInputs

\* The dispatcher starts call c: it derives the call's context (run info is
\* carried under a key of the framework) and runs OnStart on it. Calls are
\* numbered in the order they start.
StartCall(c, info, input) ==
    /\ calls[c].pc = "NotStarted"
    /\ IF c = 1 THEN TRUE ELSE calls[c - 1].pc # "NotStarted"
    /\ LET sc0 == WithValue(scopes, Background, OtherKey, NoValue)
           r == OnStart(variant, heap, sc0, Len(sc0), info, input)
       IN  /\ heap' = r.heap
           /\ scopes' = r.scopes
           /\ calls' = [calls EXCEPT ![c] = [NoCall EXCEPT !.pc = "Started", !.info = info,
                                                          !.args = input.ArgumentsInJSON,
                                                          !.input = input.shape,
                                                          !.ctx = r.ctx,
                                                          !.printed = r.printed]]
    /\ UNCHANGED <<variant, lastOp, streamVars>>

\* The tool runs on the context OnStart returned: safeTool.InvokableRun
RunTool(c) ==
    /\ calls[c].pc = "Started"
    /\ calls[c].info.Component = ComponentOfTool
    /\ \E inner \in InnerRun(calls[c].info.Name, calls[c].args) :
           /\ heap' = SafeToolState(heap, GetToolState(scopes, calls[c].ctx), inner)
           /\ calls' = [calls EXCEPT ![c].pc = "Returned", ![c].inner = inner,
                                     ![c].ret = SafeToolResult(inner)]
    /\ UNCHANGED <<variant, scopes, lastOp, streamVars>>

\* The chat model runs; no wrapper stands between it and the dispatcher
RunModel(c) ==
    /\ calls[c].pc = "Started"
    /\ calls[c].info.Component = ComponentOfChatModel
    /\ \E inner \in ModelRun :
           calls' = [calls EXCEPT ![c].pc = "Returned", ![c].inner = inner, ![c].ret = inner]
    /\ UNCHANGED <<variant, heap, scopes, lastOp, streamVars>>

\* The dispatcher ends call c through OnEnd when the component returned no error
EndCall(c) ==
    /\ calls[c].pc = "Returned"
    /\ calls[c].ret.err = NilErr
    /\ LET output == IF calls[c].info.Component = ComponentOfTool
                     THEN [shape |-> ToolCallbackOutput, Response |-> calls[c].ret.out]
                     ELSE [shape |-> ModelCallbackOutput, Response |-> calls[c].ret.out]
           r == OnEnd(variant, heap, scopes, calls[c].ctx, calls[c].info, output)
       IN  calls' = [calls EXCEPT ![c].pc = "Ended", ![c].ctx = r.ctx,
                                  ![c].printed = calls[c].printed \o r.printed]
    /\ UNCHANGED <<variant, heap, scopes, lastOp, streamVars>>

\* ... and through OnError when it returned an error
FailCall(c) ==
    /\ calls[c].pc = "Returned"
    /\ calls[c].ret.err # NilErr
    /\ LET r == OnError(calls[c].ctx, calls[c].info, calls[c].ret.err)
       IN  calls' = [calls EXCEPT ![c].pc = "Errored", ![c].ctx = r.ctx,
                                  ![c].printed = calls[c].printed \o r.printed]
    /\ UNCHANGED <<variant, heap, scopes, lastOp, streamVars>>


\* ------------------------------------------------------------------ streams
EOF == "io.EOF"
RecvError == "recv error"

SchemaMessage == "*schema.Message"
OtherShape == "other"

\* a frame has a shape and, unless its message is nil, a message with
\* Content and a number of ToolCalls
NoMessage == [Content |-> "", ToolCalls |-> -1]
Frame(shape, content, toolCalls) ==
    [shape |-> shape, Message |-> [Content |-> content, ToolCalls |-> toolCalls]]

FrameAlphabet ==
    {Frame(ModelCallbackOutput, "A", 0),
     Frame(SchemaMessage, "B", 0),
     Frame(ModelCallbackOutput, "", 0),
     Frame(ModelCallbackOutput, "", 1),
     [shape |-> ModelCallbackOutput, Message |-> NoMessage],
     Frame(OtherShape, "X", 0)}

SeqsUpTo(S, n) == UNION {[1..k -> S] : k \in 0..n}

\* model.ConvCallbackOutput: a callback output as it is, a message wrapped
\* in one, nil for anything else
NilCbo == [shape |-> "nil", Message |-> NoMessage]

ModelConvCallbackOutput(frame) ==
    CASE frame.shape = ModelCallbackOutput -> frame
      [] frame.shape = SchemaMessage -> [shape |-> ModelCallbackOutput, Message |-> frame.Message]
      [] OTHER -> NilCbo

\* what the drain loop prints for one frame: the content, or nothing
ForwardedEvenEmpty(v, frame) ==
    IF frame.shape \in {ModelCallbackOutput, SchemaMessage} /\ frame.Message # NoMessage
    THEN <<frame.Message.Content>>
    ELSE <<>>

Forwarded(v, frame) ==
    IF v = 1
    THEN LET cbo == ModelConvCallbackOutput(frame) IN
         IF cbo # NilCbo /\ cbo.Message # NoMessage
         THEN IF cbo.Message.Content # "" THEN <<cbo.Message.Content>> ELSE <<>>
         ELSE <<>>
    ELSE CASE frame.shape = SchemaMessage ->
                  IF frame.Message.Content # "" THEN <<frame.Message.Content>> ELSE <<>>
           [] frame.shape = ModelCallbackOutput ->
                  IF frame.Message # NoMessage /\ frame.Message.Content # ""
                  THEN <<frame.Message.Content>> ELSE <<>>
           [] OTHER -> <<>>

\* sr.Recv() by a reader that has received pos items: the next frame, or
\* the terminal signal after the last one
Recv(pos) ==
    IF pos < Len(frames) THEN [frame |-> frames[pos + 1], err |-> "nil"]
    ELSE [frame |-> [shape |-> "nil", Message |-> NoMessage], err |-> term]

NoDrain == [pc |-> "none", pos |-> 0, closed |-> 0, observed |-> <<>>, errors |-> <<>>]
NoChecker == [pc |-> "idle", pos |-> 0, closed |-> 0, result |-> FALSE, err |-> "nil"]
\* main before its first Recv on the agent's output stream
NoMain == [pc |-> "reading", pos |-> 0]

\* one turn of the goroutine's loop, with the deferred Close when it leaves
DrainStepLeakOnError(v, d, r) ==
    IF r.err # "nil"
    THEN IF r.err = EOF
         THEN [d EXCEPT !.pc = "done", !.pos = d.pos + 1, !.closed = d.closed + 1]
         ELSE [d EXCEPT !.pc = "done", !.pos = d.pos + 1,
                        !.errors = Append(d.errors, <<"[ERROR] failed to recv from stream", r.err>>)]
    ELSE [d EXCEPT !.pos = d.pos + 1, !.observed = d.observed \o Forwarded(v, r.frame)]

DrainStepContinueOnError(v, d, r) ==
    IF r.err # "nil"
    THEN IF r.err = EOF
         THEN [d EXCEPT !.pc = "done", !.pos = d.pos + 1, !.closed = d.closed + 1]
         ELSE [d EXCEPT !.pos = d.pos + 1,
                        !.errors = Append(d.errors, <<"[ERROR] failed to recv from stream", r.err>>)]
    ELSE [d EXCEPT !.pos = d.pos + 1, !.observed = d.observed \o Forwarded(v, r.frame)]

DrainStep(v, d, r) ==
    IF r.err # "nil"
    THEN IF r.err = EOF
         THEN [d EXCEPT !.pc = "done", !.pos = d.pos + 1, !.closed = d.closed + 1]
         ELSE [d EXCEPT !.pc = "done", !.pos = d.pos + 1, !.closed = d.closed + 1,
                        !.errors = Append(d.errors, <<"[ERROR] failed to recv from stream", r.err>>)]
    ELSE [d EXCEPT !.pos = d.pos + 1, !.observed = d.observed \o Forwarded(v, r.frame)]

\* toolCallChecker's loop without the return at a frame that carries tool calls
CheckerStepReadToEnd(k, r) ==
    IF r.err # "nil"
    THEN IF r.err = EOF
         THEN [k EXCEPT !.pc = "done", !.pos = k.pos + 1, !.closed = k.closed + 1,
                        !.result = FALSE, !.err = "nil"]
         ELSE [k EXCEPT !.pc = "done", !.pos = k.pos + 1, !.closed = k.closed + 1,
                        !.result = FALSE, !.err = r.err]
    ELSE [k EXCEPT !.pos = k.pos + 1]

\* one turn of toolCallChecker's loop, with the deferred Close when it returns
CheckerStep(k, r) ==
    IF r.err # "nil"
    THEN IF r.err = EOF
         THEN [k EXCEPT !.pc = "done", !.pos = k.pos + 1, !.closed = k.closed + 1,
                        !.result = FALSE, !.err = "nil"]
         ELSE [k EXCEPT !.pc = "done", !.pos = k.pos + 1, !.closed = k.closed + 1,
                        !.result = FALSE, !.err = r.err]
    ELSE IF r.frame.Message.ToolCalls > 0
         THEN [k EXCEPT !.pc = "done", !.pos = k.pos + 1, !.closed = k.closed + 1,
                        !.result = TRUE, !.err = "nil"]
         ELSE [k EXCEPT !.pos = k.pos + 1]

\* the source of the stream delivers its next item
Deliver ==
    /\ avail < Len(frames) + 1
    /\ avail' = avail + 1
    /\ UNCHANGED <<variant, heap, scopes, lastOp, calls, frames, term, comp, hookPc, drain, chk, main>>

\* LoggerCallback.OnEndWithStreamOutput, written as if the loop ran in the
\* handler itself: it returns once the whole stream has been read
OnEndWithStreamOutputInline ==
    /\ hookPc = "pending"
    /\ IF comp = ComponentOfChatModel
       THEN /\ avail = Len(frames) + 1
            /\ drain' = [drain EXCEPT !.pc = "done", !.pos = Len(frames) + 1, !.closed = 1]
       ELSE drain' = [drain EXCEPT !.closed = drain.closed + 1]
    /\ hookPc' = "returned"
    /\ UNCHANGED <<variant, heap, scopes, lastOp, calls, frames, term, avail, comp, chk, main>>

\* LoggerCallback.OnEndWithStreamOutput, written as if it started the
\* goroutine for every component
OnEndWithStreamOutputAllKinds ==
    /\ hookPc = "pending"
    /\ drain' = [drain EXCEPT !.pc = "running"]
    /\ hookPc' = "returned"
    /\ UNCHANGED <<variant, heap, scopes, lastOp, calls, frames, term, avail, comp, chk, main>>

\* LoggerCallback.OnEndWithStreamOutput: starts the goroutine for a chat
\* model, closes the stream when it returns for any other component
OnEndWithStreamOutput ==
    /\ hookPc = "pending"
    /\ IF comp = ComponentOfChatModel
       THEN drain' = [drain EXCEPT !.pc = "running"]
       ELSE drain' = [drain EXCEPT !.closed = drain.closed + 1]
    /\ hookPc' = "returned"
    /\ UNCHANGED <<variant, heap, scopes, lastOp, calls, frames, term, avail, comp, chk, main>>

\* the goroutine receives its next item; it waits while none is delivered,
\* and it runs no longer than the process: nothing waits for it when main
\* returns
DrainRecv ==
    /\ drain.pc = "running"
    /\ main.pc = "reading"
    /\ drain.pos < avail
    /\ drain' = DrainStep(variant, drain, Recv(drain.pos))
    /\ UNCHANGED <<variant, heap, scopes, lastOp, calls, frames, term, avail, comp, hookPc, chk, main>>

\* after the handler has returned the agent runs toolCallChecker on its own
\* reader of the chat model's stream
StartChecker ==
    /\ hookPc = "returned"
    /\ comp = ComponentOfChatModel
    /\ chk.pc = "idle"
    /\ chk' = [chk EXCEPT !.pc = "running"]
    /\ UNCHANGED <<variant, heap, scopes, lastOp, calls, frames, term, avail, comp, hookPc, drain, main>>

CheckerRecv ==
    /\ chk.pc = "running"
    /\ chk.pos < avail
    /\ chk' = CheckerStep(chk, Recv(chk.pos))
    /\ UNCHANGED <<variant, heap, scopes, lastOp, calls, frames, term, avail, comp, hookPc, drain, main>>

\* no stream in flight
NoStream ==
    /\ frames = <<>>
    /\ term = EOF
    /\ avail = 0
    /\ comp = ComponentOfTool
    /\ hookPc = "returned"
    /\ drain = NoDrain
    /\ chk = NoChecker
    /\ main = NoMain

\* main's loop on the agent's output stream. The agent's output is the chat
\* model's stream when the checker found no tool call in it; it fails with
\* the checker's error. main prints [STREAM] Finished at end-of-sequence
\* and returns, which ends the process.
MainRecv ==
    /\ main.pc = "reading"
    /\ comp = ComponentOfChatModel
    /\ chk.pc = "done"
    /\ IF chk.err # "nil"
       THEN main' = [main EXCEPT !.pc = "failed"]
       ELSE /\ ~chk.result
            /\ main.pos < avail
            /\ LET r == Recv(main.pos) IN
               main' = [pc |-> IF r.err = "nil" THEN "reading"
                               ELSE IF r.err = EOF THEN "finished" ELSE "failed",
                        pos |-> main.pos + 1]
    /\ UNCHANGED <<variant, heap, scopes, lastOp, calls, frames, term, avail, comp, hookPc, drain, chk>>

\* ------------------------------------------------------------------ specifications
vars == <<variant, heap, scopes, lastOp, calls, frames, term, avail, comp, hookPc, drain, chk, main>>

InitCalls ==
    /\ variant \in {1, 2}
    /\ heap = <<>>
    /\ scopes = <<>>
    /\ lastOp = NoOp
    /\ calls = [c \in Calls |-> NoCall]
    /\ NoStream

NextCalls ==
    \/ \E c \in Calls, info \in ToolInfos \cup ModelInfos :
           \E input \in InputsFor(info) : StartCall(c, info, input)
    \/ \E c \in Calls : RunTool(c)
    \/ \E c \in Calls : RunModel(c)
    \/ \E c \in Calls : EndCall(c)
    \/ \E c \in Calls : FailCall(c)

SpecCalls == InitCalls /\ [][NextCalls]_vars

\* direct use of the tools API, outside any dispatched call
InitApi ==
    /\ variant = 1
    /\ heap = <<>>
    /\ scopes = <<>>
    /\ lastOp = NoOp
    /\ calls = [c \in Calls |-> NoCall]
    /\ NoStream

NextApi ==
    \/ \E b \in BOOLEAN : NewState(b)
    \/ \E ctx \in Contexts(scopes) : DeriveContext(ctx)
    \/ \E ctx \in Contexts(scopes), state \in 0..Len(heap) : CallSetToolState(ctx, state)
    \/ \E tool \in ToolNames, ctx \in Contexts(scopes), args \in Arguments :
           CallInvokableRun(tool, ctx, args)

SpecApi == InitApi /\ [][NextApi]_vars

\* one output stream handed to OnEndWithStreamOutput
InitStream ==
    /\ variant \in {1, 2}
    /\ heap = <<>>
    /\ scopes = <<>>
    /\ lastOp = NoOp
    /\ calls = [c \in Calls |-> NoCall]
    /\ frames \in SeqsUpTo(FrameAlphabet, MaxFrames)
    /\ term \in {EOF, RecvError}
    /\ avail = 0
    /\ comp \in {ComponentOfChatModel, ComponentOfTool}
    /\ hookPc = "pending"
    /\ drain = NoDrain
    /\ chk = NoChecker
    /\ main = NoMain

NextStream ==
    \/ Deliver
    \/ OnEndWithStreamOutput
    \/ DrainRecv
    \/ StartChecker
    \/ CheckerRecv

SpecStream == InitStream /\ [][NextStream]_vars

\* the stream's consumers together with main's loop
NextMain ==
    \/ NextStream
    \/ MainRecv

SpecMain == InitStream /\ [][NextMain]_vars

\* The source delivers every item, and the agent's own path (the handler,
\* then the checker) keeps running; nothing is assumed of the goroutine.
SpecStreamPrimary ==
    /\ SpecStream
    /\ WF_vars(Deliver)
    /\ WF_vars(OnEndWithStreamOutput)
    /\ WF_vars(StartChecker)
    /\ WF_vars(CheckerRecv)

\* ------------------------------------------------------------------ claims on the tools API
Invoked == lastOp.op = "invoke"

\* C1: whenever the wrapped capability returns an error e, safeTool.InvokableRun
\* returns (e's message text, nil error), whatever the arguments and whether
\* or not a state is bound to the context.
C1_FailureDowngraded ==
    (Invoked /\ ~lastOp.inner.err.isNil)
        => lastOp.ret = [out |-> lastOp.inner.err.msg, err |-> NilErr]

C1_Witness ==
    /\ Invoked
    /\ lastOp.inner.err = ServiceUnavailable
    /\ lastOp.pre.bound

\* C2: after safeTool.InvokableRun returns on a context with a state bound,
\* the state's Success flag equals (the wrapped capability returned no
\* error), independent of the flag's value before the call.
C2_SuccessIffNoError ==
    Invoked =>
        LET state == GetToolState(scopes, lastOp.ctx) IN
        state # Nil => (heap[state].Success <=> lastOp.inner.err.isNil)

C2_Witness ==
    /\ Invoked
    /\ lastOp.pre.bound
    /\ lastOp.pre.Success
    /\ ~lastOp.inner.err.isNil
    /\ ~heap[GetToolState(scopes, lastOp.ctx)].Success

DecodeFailed == Invoked /\ ~Unmarshal(lastOp.args).err.isNil

\* C3 as stated: an invocation of a tool obtained from GetRestaurantTool or
\* GetDishTool with undecodable argument JSON returns the decode failure as
\* a non-nil error, not as payload text, and leaves the bound state at its
\* value before the invocation.
C3_DecodeErrorPropagated ==
    DecodeFailed =>
        /\ lastOp.ret.err = Unmarshal(lastOp.args).err
        /\ lastOp.ret.out # Unmarshal(lastOp.args).err.msg
        /\ LET state == GetToolState(scopes, lastOp.ctx) IN
           state # Nil => heap[state].Success = lastOp.pre.Success

\* C3 amended: the wrapped capability returns the decode failure as a genuine
\* error and nothing else; safeTool.InvokableRun returns that error's text
\* as payload with a nil error and sets the bound state's Success to false.
C3_DecodeErrorDowngraded ==
    DecodeFailed =>
        /\ lastOp.inner = [out |-> EmptyStr, err |-> SyntaxError]
        /\ lastOp.ret = [out |-> SyntaxError.msg, err |-> NilErr]
        /\ LET state == GetToolState(scopes, lastOp.ctx) IN
           state # Nil => ~heap[state].Success

C3_Witness ==
    /\ DecodeFailed
    /\ lastOp.tool = QueryRestaurants
    /\ lastOp.pre.bound
    /\ lastOp.pre.Success
    /\ ~heap[GetToolState(scopes, lastOp.ctx)].Success

\* whether a binding of the tool-state key lies on the lineage of ctx
RECURSIVE BoundOnLineage(_, _)
BoundOnLineage(sc, ctx) ==
    IF ctx = Background THEN FALSE
    ELSE sc[ctx].key = ToolStateKey \/ BoundOnLineage(sc, sc[ctx].parent)

\* C9: GetToolState on a context on whose lineage no state was bound returns
\* nil, whatever was bound on other contexts.
C9_UnboundLookupAbsent ==
    \A ctx \in Contexts(scopes) :
        ~BoundOnLineage(scopes, ctx) => GetToolState(scopes, ctx) = Nil

C9_Witness ==
    \E ctx, other \in 1..Len(scopes) :
        /\ ~BoundOnLineage(scopes, ctx)
        /\ scopes[other].key = ToolStateKey
        /\ scopes[other].val.ptr # Nil
        /\ GetToolState(scopes, ctx) = Nil

\* C10: SetToolState is a non-destructive extension: lookup on the derived
\* context yields the very state that was bound, and lookup on every
\* context that existed before yields what it yielded before.
C10_BindNonDestructive ==
    [][lastOp'.op = "bind" =>
          /\ GetToolState(scopes', lastOp'.newCtx) = lastOp'.state
          /\ \A ctx \in Contexts(scopes) :
                 GetToolState(scopes', ctx) = GetToolState(scopes, ctx)]_vars

C10_Witness ==
    /\ lastOp.op = "bind"
    /\ lastOp.ctx # Background
    /\ lastOp.state # Nil
    /\ GetToolState(scopes, lastOp.ctx) = Nil
    /\ GetToolState(scopes, lastOp.newCtx) = lastOp.state

\* ------------------------------------------------------------------ claims on dispatched calls
SucceededLine(c) == <<"[TOOL]", calls[c].info.Name, "execution succeeded">>
FailedLine(c) == <<"[TOOL]", calls[c].info.Name, "execution failed">>

\* how often a line was printed for call c
Printed(c, line) ==
    Cardinality({i \in 1..Len(calls[c].printed) : calls[c].printed[i] = line})

\* the state of call c as its report shows it
Status(c) ==
    IF calls[c].pc = "NotStarted" THEN "NotStarted"
    ELSE IF Printed(c, SucceededLine(c)) > 0 THEN "Succeeded"
    ELSE IF Printed(c, FailedLine(c)) > 0 THEN "Failed"
    ELSE "Started"

\* call c is a tool call for which OnStart bound a state
StateBound(c) ==
    /\ calls[c].pc # "NotStarted"
    /\ calls[c].info.Component = ComponentOfTool
    /\ GetToolState(scopes, calls[c].ctx) # Nil

\* C4: a tool call for which OnStart bound a state and which ran through
\* safeTool on the context OnStart returned is reported by OnEnd as
\* succeeded iff the wrapped capability returned no error and as failed
\* otherwise, with exactly one report; the call moves NotStarted -> Started
\* -> Succeeded or Failed and nowhere else.
C4_ReportMatchesOutcome ==
    /\ [](\A c \in Calls : StateBound(c) =>
             /\ calls[c].pc \in {"Started", "Returned"} => Status(c) = "Started"
             /\ calls[c].pc = "Ended" =>
                    /\ Status(c) = (IF calls[c].inner.err.isNil THEN "Succeeded" ELSE "Failed")
                    /\ Printed(c, SucceededLine(c)) + Printed(c, FailedLine(c)) = 1)
    /\ [][\A c \in Calls :
              (StateBound(c)' /\ Status(c)' # Status(c)) =>
                  <<Status(c), Status(c)'>> \in {<<"NotStarted", "Started">>,
                                                 <<"Started", "Succeeded">>,
                                                 <<"Started", "Failed">>}]_vars

C4_Witness ==
    \E a, b \in Calls :
        /\ StateBound(a) /\ StateBound(b)
        /\ calls[a].pc = "Ended" /\ calls[b].pc = "Ended"
        /\ calls[a].inner.err = ServiceUnavailable /\ Status(a) = "Failed"
        /\ calls[b].inner.err.isNil /\ Status(b) = "Succeeded"

\* C5: two calls that each got a state bound by OnStart have different
\* states; lookup on a call's context returns the same state for as long
\* as the call lives; and a step of one call leaves the other's state as
\* it was.
C5_Isolation ==
    /\ [](\A a, b \in Calls :
             (a # b /\ StateBound(a) /\ StateBound(b)) =>
                 GetToolState(scopes, calls[a].ctx) # GetToolState(scopes, calls[b].ctx))
    /\ [][\A a \in Calls : StateBound(a) =>
              /\ GetToolState(scopes', calls'[a].ctx) = GetToolState(scopes, calls[a].ctx)
              /\ calls'[a] = calls[a] =>
                     heap'[GetToolState(scopes, calls[a].ctx)]
                         = heap[GetToolState(scopes, calls[a].ctx)]]_vars

C5_Witness ==
    \E a, b \in Calls :
        /\ a # b /\ StateBound(a) /\ StateBound(b)
        /\ calls[a].pc = "Returned" /\ calls[b].pc = "Returned"
        /\ heap[GetToolState(scopes, calls[a].ctx)].Success
        /\ ~heap[GetToolState(scopes, calls[b].ctx)].Success
        /\ ~calls[b].inner.err.isNil

\* ------------------------------------------------------------------ claims on streams
\* C6: the stream handed to OnEndWithStreamOutput is closed exactly once on
\* every exit path: when the goroutine leaves after end-of-sequence or after
\* a receive error, and when the handler returns for a component that is no
\* chat model (no frame read); not before, and never twice.
C6_ClosedExactlyOnce ==
    /\ drain.closed <= 1
    /\ hookPc = "pending" => drain.closed = 0
    /\ drain.pc = "running" => drain.closed = 0
    /\ drain.pc = "done" => drain.closed = 1
    /\ (hookPc = "returned" /\ comp # ComponentOfChatModel) =>
           (drain.closed = 1 /\ drain.pos = 0)

C6_Witness ==
    /\ comp = ComponentOfChatModel
    /\ term = RecvError
    /\ Len(frames) = 2
    /\ drain.pc = "done"
    /\ drain.closed = 1
    /\ drain.errors # <<>>

\* the contents of the frames that carry a message with non-empty content
\* in a shape the drain recognises, in order
RECURSIVE AssistantContents(_)
AssistantContents(fs) ==
    IF fs = <<>> THEN <<>>
    ELSE LET f == Head(fs)
             here == IF /\ f.shape \in {ModelCallbackOutput, SchemaMessage}
                        /\ f.Message # NoMessage
                        /\ f.Message.Content # ""
                     THEN <<f.Message.Content>> ELSE <<>>
         IN  here \o AssistantContents(Tail(fs))

\* the frames the goroutine has received so far
Received == SubSeq(frames, 1, IF drain.pos < Len(frames) THEN drain.pos ELSE Len(frames))

\* C7: the drain of a chat model's stream prints exactly the non-empty
\* contents of the recognised frames it has received, in stream order;
\* frames with empty content or another shape are skipped and the drain
\* goes on to the terminal signal.
C7_ForwardsNonEmptyContent ==
    comp = ComponentOfChatModel =>
        /\ drain.observed = AssistantContents(Received)
        /\ drain.pc = "done" => drain.pos = Len(frames) + 1

C7_Witness ==
    /\ comp = ComponentOfChatModel
    /\ frames = <<Frame(ModelCallbackOutput, "A", 0), Frame(ModelCallbackOutput, "", 0),
                  Frame(SchemaMessage, "B", 0)>>
    /\ term = EOF
    /\ drain.pc = "done"
    /\ drain.observed = <<"A", "B">>

\* C8: OnEndWithStreamOutput returns without receiving from the stream and
\* without waiting for it (it can run whatever has been delivered, and no
\* frame has been received or printed when it returns); the checker that
\* runs after it reaches its end whenever the source delivers, also when
\* the goroutine never runs.
C8_PrimaryNotBlocked ==
    /\ [](hookPc = "pending" => ENABLED OnEndWithStreamOutput)
    /\ [][(hookPc = "pending" /\ hookPc' = "returned") =>
              (drain'.pos = 0 /\ drain'.observed = <<>> /\ drain'.pc # "done")]_vars
    /\ [](comp = ComponentOfChatModel => <>(chk.pc = "done"))

C8_Witness ==
    /\ comp = ComponentOfChatModel
    /\ chk.pc = "done"
    /\ chk.pos = Len(frames) + 1
    /\ Len(frames) = MaxFrames
    /\ drain.pc = "running"
    /\ drain.pos = 0

\* ------------------------------------------------------------------ further claims on dispatched calls
\* call c is a tool call that OnEnd has ended with no state bound to its context
EndedUnbound(c) ==
    /\ calls[c].pc = "Ended"
    /\ calls[c].info.Component = ComponentOfTool
    /\ GetToolState(scopes, calls[c].ctx) = Nil

IndeterminateLine(c) == <<"[TOOL]", calls[c].info.Name, "execution indeterminate">>
ResultLine(c) == <<"[TOOL]", calls[c].info.Name, "result", Truncate(calls[c].ret.out)>>
StartLine(c) == <<"[TOOL]", calls[c].info.Name, calls[c].args>>

C12_SuccessPassedThrough ==
    (Invoked /\ lastOp.inner.err.isNil) =>
        /\ lastOp.ret.out = lastOp.inner.out
        /\ lastOp.ret.err.isNil
        /\ lastOp.ret \in InnerRun(lastOp.tool, lastOp.args)

C12_Witness ==
    /\ Invoked
    /\ lastOp.inner.err.isNil
    /\ lastOp.inner.out.long
    /\ ~lastOp.pre.bound
    /\ lastOp.ret = lastOp.inner

\* ------------------------------------------------------------------ further claims on streams
\* C13: OnEndWithStreamOutput starts the draining goroutine only for a chat
\* model's stream; for any other component the handler closes the stream as
\* it returns, and nothing is ever received from it or forwarded.
C13_DrainOnlyForChatModel ==
    /\ hookPc = "pending" => drain = NoDrain
    /\ (hookPc = "returned" /\ comp = ComponentOfChatModel) => drain.pc \in {"running", "done"}
    /\ (hookPc = "returned" /\ comp # ComponentOfChatModel) =>
           drain = [NoDrain EXCEPT !.closed = 1]

C13_Witness ==
    /\ comp = ComponentOfTool
    /\ hookPc = "returned"
    /\ Len(frames) >= 2
    /\ avail = Len(frames) + 1
    /\ \E i \in 1..Len(frames) : Forwarded(variant, frames[i]) # <<>>
    /\ drain.closed = 1
    /\ drain.pos = 0

\* the goroutine has received the stream's terminal signal
DrainAtTerminal == drain.pc # "none" /\ drain.pos = Len(frames) + 1

\* C14: a receive error that is not end-of-sequence ends the drain: the
\* goroutine logs it once and leaves, it receives and prints nothing after
\* it, what it printed before stays, and the step changes nothing of the
\* handler that started it or of the checker on the agent's own path.
C14_ErrorStopsDrain ==
    /\ []((DrainAtTerminal /\ term = RecvError) =>
              /\ drain.pc = "done"
              /\ drain.errors = << <<"[ERROR] failed to recv from stream", RecvError>> >>
              /\ drain.observed = AssistantContents(frames))
    /\ [][drain.pc = "done" => drain' = drain]_vars
    /\ [][(drain' # drain /\ drain'.errors # <<>>) =>
              /\ drain'.observed = drain.observed
              /\ hookPc' = hookPc
              /\ chk' = chk]_vars

C14_Witness ==
    /\ comp = ComponentOfChatModel
    /\ term = RecvError
    /\ Len(frames) >= 2
    /\ drain.pc = "done"
    /\ drain.observed # <<>>
    /\ drain.errors # <<>>
    /\ chk.pc = "running"
    /\ chk.pos < Len(frames)

\* frame i of the stream carries at least one tool call
HasToolCalls(i) == frames[i].Message.ToolCalls > 0

\* C18: toolCallChecker returns (true, nil) at the first frame that carries
\* a tool call, without receiving any later frame; (false, nil) when it
\* reaches end-of-sequence with no such frame; (false, err) on any other
\* receive error; and it closes its reader exactly once, when it returns.
C18_CheckerVerdict ==
    /\ chk.pc # "done" => (chk.closed = 0 /\ ~chk.result /\ chk.err = "nil")
    /\ chk.pc = "done" =>
           /\ chk.closed = 1
           /\ \A i \in 1..Len(frames) : i < chk.pos => ~HasToolCalls(i)
           /\ IF chk.result
              THEN /\ chk.err = "nil"
                   /\ chk.pos \in 1..Len(frames)
                   /\ HasToolCalls(chk.pos)
              ELSE /\ chk.pos = Len(frames) + 1
                   /\ chk.err = IF term = EOF THEN "nil" ELSE term

C18_Witness ==
    /\ chk.pc = "done"
    /\ chk.result
    /\ chk.pos = 2
    /\ Len(frames) = 3
    /\ avail = Len(frames) + 1
    /\ chk.closed = 1

\* ------------------------------------------------------------------ claims on the life of a state
\* the state that lookup finds on call c's context (Nil when there is none)
StateOf(c) == GetToolState(scopes, calls[c].ctx)

\* the tool calls whose safeTool.InvokableRun has written state s
Writers(s) ==
    {c \in Calls : /\ calls[c].info.Component = ComponentOfTool
                   /\ calls[c].pc \in {"Returned", "Ended", "Errored"}
                   /\ StateOf(c) = s}

\* the tool calls whose OnEnd has read state s
Readers(s) ==
    {c \in Calls : /\ calls[c].info.Component = ComponentOfTool
                   /\ calls[c].pc = "Ended"
                   /\ variant = 1
                   /\ StateOf(c) = s}

\* C15: over any sequence of tool calls, repeated calls of one tool after a
\* failure included, every state is written by at most one invocation and
\* read by at most one OnEnd, those of the call it was created for; a
\* state changes only in the step in which its own call's invocation
\* returns.
C15_WrittenOnceReadOnce ==
    /\ [](\A s \in 1..Len(heap) :
             /\ Cardinality(Writers(s)) <= 1
             /\ Cardinality(Readers(s)) <= 1
             /\ Readers(s) \subseteq Writers(s))
    /\ [][\A s \in 1..Len(heap) :
              heap'[s] # heap[s] =>
                  \E c \in Calls : /\ StateOf(c) = s
                                   /\ calls[c].pc = "Started"
                                   /\ calls'[c].pc = "Returned"]_vars

C15_Witness ==
    /\ calls[1].pc = "Ended"
    /\ ~calls[1].inner.err.isNil
    /\ calls[2].pc = "Returned"
    /\ calls[2].info = calls[1].info
    /\ calls[2].args = calls[1].args
    /\ calls[2].inner.err.isNil
    /\ Writers(1) = {1} /\ Readers(1) = {1}
    /\ Writers(2) = {2} /\ Readers(2) = {}

\* C16: every OnStart of a tool call that binds a state allocates one that
\* no other call has, with Success = FALSE, and the flag stays FALSE until
\* the call's own invocation has returned, whatever earlier calls did.
C16_FreshStateStartsFalse ==
    \A c \in Calls :
        (StateBound(c) /\ calls[c].pc = "Started") =>
            /\ ~heap[StateOf(c)].Success
            /\ \A d \in Calls : (d # c /\ calls[d].pc # "NotStarted") => StateOf(d) # StateOf(c)
            /\ Len(heap) = Cardinality({d \in Calls : StateBound(d)})

C16_Witness ==
    /\ StateBound(1) /\ calls[1].pc = "Ended" /\ heap[StateOf(1)].Success
    /\ StateBound(2) /\ calls[2].pc = "Started" /\ ~heap[StateOf(2)].Success
    /\ calls[2].info = calls[1].info

\* ------------------------------------------------------------------ claims on the end of a call
ErrorLine(c) ==
    <<"[ERROR]", calls[c].info.Component, calls[c].info.Type, calls[c].info.Name,
      ErrorText(calls[c].ret.err)>>

\* C19: with every tool behind safeTool and a dispatcher that runs OnError
\* exactly when the invocation returned an error, a tool call always ends
\* through OnEnd and never through OnError, also when the wrapped
\* capability failed; OnError itself only prints: it returns the context
\* it was given, changes no state, runs the component no second time, and
\* the call is over after it.
C19_ToolCallsEndThroughOnEnd ==
    /\ [](\A c \in Calls : calls[c].info.Component = ComponentOfTool =>
             /\ calls[c].pc # "Errored"
             /\ calls[c].ret.err.isNil
             /\ ~ENABLED FailCall(c)
             /\ calls[c].pc = "Returned" => ENABLED EndCall(c))
    /\ [][\A c \in Calls :
              /\ calls[c].pc = "Errored" => calls'[c] = calls[c]
              /\ (calls[c].pc # "Errored" /\ calls'[c].pc = "Errored") =>
                     /\ calls'[c] = [calls[c] EXCEPT !.pc = "Errored",
                                                     !.printed = Append(calls[c].printed, ErrorLine(c))]
                     /\ \A d \in Calls \ {c} : calls'[d] = calls[d]
                     /\ heap' = heap
                     /\ scopes' = scopes]_vars

C19_Witness ==
    \E a, b \in Calls :
        /\ calls[a].info.Component = ComponentOfTool
        /\ calls[a].pc = "Ended"
        /\ calls[a].inner.err = ServiceUnavailable
        /\ calls[b].info.Component = ComponentOfChatModel
        /\ calls[b].pc = "Errored"
        /\ calls[b].printed = <<ErrorLine(b)>>

\* ------------------------------------------------------------------ claims on OnStart's frame
\* call c is a tool call whose input converts to a tool callback input
BindsState(c) ==
    /\ calls[c].info.Component = ComponentOfTool
    /\ calls[c].input \in {ToolCallbackInput, GoString}

\* the context the dispatcher handed to OnStart for the call that is
\* starting in this step: the one it has just derived
HandedToOnStart == Len(scopes) + 1

\* C20: OnStart binds a state only for a tool call whose input converts to
\* a tool callback input. For a call of another component, or a tool call
\* whose input does not convert, it returns the context it was given:
\* nothing is allocated, no context is derived, nothing is printed, and
\* lookup on the context finds no state, as before.
C20_BindsOnlyConvertibleToolInput ==
    /\ [](\A c \in Calls : StateBound(c) => BindsState(c))
    /\ [][\A c \in Calls :
              (calls[c].pc = "NotStarted" /\ calls'[c].pc = "Started") =>
                  IF BindsState(c)' /\ variant = 1
                  THEN /\ Len(heap') = Len(heap) + 1
                       /\ calls'[c].ctx # HandedToOnStart
                       /\ scopes'[calls'[c].ctx].parent = HandedToOnStart
                       /\ GetToolState(scopes', calls'[c].ctx) = Len(heap')
                       /\ GetToolState(scopes', HandedToOnStart) = Nil
                  ELSE /\ heap' = heap
                       /\ calls'[c].ctx = HandedToOnStart
                       /\ Len(scopes') = HandedToOnStart
                       /\ GetToolState(scopes', calls'[c].ctx) = Nil
                       /\ ~BindsState(c)' => calls'[c].printed = <<>>]_vars

C20_Witness ==
    \E a, b \in Calls :
        /\ variant = 1
        /\ calls[a].pc = "Started"
        /\ calls[a].info.Component = ComponentOfTool
        /\ calls[a].input = ModelCallbackInput
        /\ ~StateBound(a)
        /\ calls[b].pc = "Started"
        /\ calls[b].info.Component = ComponentOfChatModel
        /\ ~StateBound(b)
        /\ heap = <<>>

\* ------------------------------------------------------------------ claims on main's loop
\* C17: a drain started for a chat model's stream consumes the stream up to
\* its terminal signal and closes it; in particular it has done so by the
\* time main has read the agent's output to end-of-sequence and reports
\* [STREAM] Finished.
C17_DrainedWhenMainFinished ==
    (main.pc = "finished" /\ comp = ComponentOfChatModel) =>
        /\ drain.pc = "done"
        /\ drain.pos = Len(frames) + 1
        /\ drain.closed = 1

\* main has reported the stream finished while the goroutine has printed
\* only part of the assistant's text and has not closed its reader
C17_Witness ==
    /\ main.pc = "finished"
    /\ avail = Len(frames) + 1
    /\ drain.pc = "running"
    /\ drain.closed = 0
    /\ drain.observed # AssistantContents(frames)
    /\ ~ENABLED DrainRecv

====
